---- MODULE Spec2Model ----
(***************************************************************************)
(* Smart Assembly Pro: the UI Shell (App), the Generation Client           *)
(* (generateSection) and the Generation Proxy (handler).                   *)
(*                                                                         *)
(* Spec      : one browser tab running App against local storage and the   *)
(*             Proxy; every event handler and every continuation after an  *)
(*             await is one atomic step (single-threaded event loop, state *)
(*             updates of one handler are batched into one render, and the *)
(*             effects of that render run before the next event).          *)
(* FairSpec  : Spec plus the assumption that every in-flight request       *)
(*             eventually resolves or rejects.                             *)
(* ProxySpec : the Proxy endpoint alone, answering arbitrary HTTP requests.*)
(* ClientSpec: generateSection and suggestTopics alone, for every outcome  *)
(*             of their fetch.                                             *)
(* ShellSpec : the greeting, the speech synthesis and the download.        *)
(* SuggestSpec: the topic suggestions next to generation.                  *)
(***************************************************************************)
EXTENDS Integers, Sequences, FiniteSets, TLC

VARIABLES
    phase,            \* "unmounted" | "running" | "crashed" (initializer or render threw)
    storage,          \* localStorage: key -> item
    data,             \* AssemblyData, an object: sequence of [k, v] members in key order
    settings,         \* AppSettings, an object
    loadingSections,  \* Record<string, boolean>: section -> "undefined" | "true" | "false"
    error,            \* string | null
    selectedDate,
    isOnline,
    customTopic,
    specialType,
    contentLength,
    requests,         \* generateSection calls awaiting their fetch
    netCalls,         \* number of fetch('/api/gemini') calls issued so far
    now,              \* the wall clock
    edits,            \* number of form edits made so far
    reloads,          \* number of page reloads so far
    lastOp,           \* the App operation that made the last step
    req,              \* Proxy: the request being handled
    res,              \* Proxy: what the platform got back from handler
    provider,         \* Proxy: what the provider does when called for req
    providerCalls,    \* Proxy: ai.models.generateContent calls made for req
    handled,          \* Proxy: number of requests handled so far
    prompt,           \* Proxy: the text handed to the provider for req
    isSpeaking,
    synth,            \* window.speechSynthesis: the utterances it holds, the spoken one first
    isSuggesting,
    suggestedTopicsList,
    suggestRequests,  \* suggestTopics calls awaiting their fetch
    suggestCalls,     \* number of suggestTopics calls made so far
    greeting,
    hour,             \* new Date().getHours(): the local hour of the day
    downloads         \* the files the browser was made to save

appVars == <<phase, storage, data, settings, loadingSections, error, selectedDate,
             isOnline, customTopic, specialType, contentLength, requests, netCalls,
             now, edits, reloads, lastOp>>
proxyVars == <<req, res, provider, providerCalls, handled, prompt>>
suggestVars == <<isSuggesting, suggestedTopicsList, suggestRequests, suggestCalls>>
shellVars == <<isSpeaking, synth, suggestVars, greeting, hour, downloads>>
vars == <<appVars, proxyVars, shellVars>>

(***************************************************************************)
(* Bounds of the model                                                     *)
(***************************************************************************)
MaxRequests == 2
MaxClock == 1
MaxEdits == 1
MaxReloads == 1
MaxHandled == 2
MaxDownloads == 2
MaxSuggests == 2

(***************************************************************************)
(* Domain types                                                            *)
(***************************************************************************)
Sections == {"word", "thought", "news", "special_item", "celebration"}
Difficulties == {"Primary", "Middle", "Senior"}
Languages == {"English", "Hindi"}
SpecialItemTypes == {"Speech", "Fact", "Quiz", "Important Day", "Moral Story"}
ContentLengths == {"Short", "Long"}
ThemeColors == {"#6366f1", "#ec4899", "#10b981", "#f59e0b", "#ef4444", "#8b5cf6"}
Topics == {"", "Space"}

(***************************************************************************)
(* JSON values. A leaf is a string, a boolean, an ISO instant or a whole   *)
(* document returned by the Proxy; an object is a sequence of members in   *)
(* insertion order, as JavaScript keeps them.                              *)
(***************************************************************************)
JStr(s) == [s |-> s]
JBool(b) == [b |-> b]
JTime(n) == [iso |-> n]
JDoc(d) == [doc |-> d]
JNull == [null |-> TRUE]
Undefined == [undefined |-> TRUE]

Keys(o) == {o[i].k : i \in 1..Len(o)}
Has(o, k) == k \in Keys(o)
Get(o, k) == IF Has(o, k)
             THEN o[CHOOSE i \in 1..Len(o) : o[i].k = k].v
             ELSE Undefined
\* { ...o, [k]: v }: an existing key keeps its place, a new key goes last
Put(o, k, v) == IF Has(o, k)
                THEN [i \in 1..Len(o) |-> IF o[i].k = k THEN [k |-> k, v |-> v] ELSE o[i]]
                ELSE Append(o, [k |-> k, v |-> v])

\* JSON text is a sequence of tokens; the empty sequence is the empty string
LBrace == [p |-> "{"]
RBrace == [p |-> "}"]
Colon == [p |-> ":"]
Comma == [p |-> ","]
Lit(v) == [lit |-> v]

RECURSIVE Members(_)
Members(o) == IF o = <<>> THEN <<>>
              ELSE <<Lit(JStr(Head(o).k)), Colon, Lit(Head(o).v)>>
                   \o (IF Len(o) > 1 THEN <<Comma>> ELSE <<>>)
                   \o Members(Tail(o))
\* a filter on truthiness instead: false goes the way of undefined
Mutant_Defined_DropsFalsy(o) ==
    SelectSeq(o, LAMBDA m : m.v # Undefined /\ m.v # JBool(FALSE))

\* properties whose value is undefined are left out
Defined(o) == SelectSeq(o, LAMBDA m : m.v # Undefined)
JSON_stringify(o) == <<LBrace>> \o Members(Defined(o)) \o <<RBrace>>

IsLit(t) == "lit" \in DOMAIN t
IsKey(t) == IsLit(t) /\ "s" \in DOMAIN t.lit
\* members of toks[i..]: key : value (, key : value)*; a repeated key keeps
\* its first place and takes the last value
RECURSIVE ParseMembers(_, _, _)
ParseMembers(toks, i, acc) ==
    IF i + 2 > Len(toks) THEN [ok |-> FALSE]
    ELSE IF ~(IsKey(toks[i]) /\ toks[i + 1] = Colon /\ IsLit(toks[i + 2]))
         THEN [ok |-> FALSE]
    ELSE LET acc2 == Put(acc, toks[i].lit.s, toks[i + 2].lit)
         IN  IF i + 2 = Len(toks) THEN [ok |-> TRUE, val |-> acc2]
             ELSE IF toks[i + 3] = Comma THEN ParseMembers(toks, i + 4, acc2)
             ELSE [ok |-> FALSE]
\* ok = FALSE stands for the SyntaxError JSON.parse throws
JSON_parse(text) ==
    IF Len(text) = 1 /\ IsLit(text[1])
    THEN [ok |-> TRUE, isObject |-> FALSE, val |-> text[1].lit]
    ELSE IF Len(text) < 2 \/ text[1] # LBrace \/ text[Len(text)] # RBrace
         THEN [ok |-> FALSE]
    ELSE IF Len(text) = 2 THEN [ok |-> TRUE, isObject |-> TRUE, val |-> <<>>]
    ELSE LET m == ParseMembers(SubSeq(text, 2, Len(text) - 1), 1, <<>>)
         IN  IF m.ok THEN [ok |-> TRUE, isObject |-> TRUE, val |-> m.val]
             ELSE [ok |-> FALSE]

(***************************************************************************)
(* localStorage                                                            *)
(***************************************************************************)
NoItem == [present |-> FALSE]
Item(text) == [present |-> TRUE, text |-> text]
getItem(key) == storage[key]
setItem(st, key, text) == [st EXCEPT ![key] = Item(text)]
\* `saved ? ... : ...`: null and the empty string are falsy
Truthy(saved) == saved.present /\ saved.text # <<>>

(***************************************************************************)
(* Generation Proxy: handler(req, res)                                     *)
(***************************************************************************)
NoBody == [nobody |-> TRUE]
\* what ai.models.generateContent does: it returns a response with a text,
\* or it throws an Error with a message
ValidDocs == {"A", "{}", "[]"}
ProviderOutcomes ==
    {[kind |-> "text", text |-> t] : t \in {"A", "", "{bad"}}
    \cup {[kind |-> "throws", message |-> m] : m \in {"quota exceeded", ""}}
\* JSON.parse of the model's text
ParseModelText(text) == IF text \in ValidDocs THEN [ok |-> TRUE, val |-> JDoc(text)]
                        ELSE [ok |-> FALSE, message |-> "Unexpected token in JSON"]

\* res.status(code).json(value): the body is the value's JSON text
Respond(code, text, calls) ==
    [kind |-> "response", status |-> code, body |-> text, providerCalls |-> calls]
ErrorBody(msg) == JSON_stringify(<<[k |-> "error", v |-> JStr(msg)]>>)
\* the catch block: error.message || 'Internal Server Error'
CatchBlock(message) ==
    Respond(500, ErrorBody(IF message # "" THEN message ELSE "Internal Server Error"), 1)
\* the await of the provider call and the parse of its text, with the type's fallback
CallProvider(po, fallback) ==
    IF po.kind = "throws" THEN CatchBlock(po.message)
    ELSE LET parsed == ParseModelText(IF po.text # "" THEN po.text ELSE fallback)
         IN  IF parsed.ok THEN Respond(200, <<Lit(parsed.val)>>, 1)
             ELSE CatchBlock(parsed.message)

Mutant_handler_NoMethodGate(rq, po) ==
    IF rq.body = NoBody THEN [kind |-> "threw", providerCalls |-> 0]
    ELSE IF rq.body.type = JStr("suggestTopics") THEN CallProvider(po, "[]")
    ELSE IF rq.body.type = JStr("generateSection") THEN CallProvider(po, "{}")
    ELSE Respond(400, ErrorBody("Invalid request type"), 0)

handler(rq, po) ==
    IF rq.method # "POST" THEN Respond(405, ErrorBody("Method not allowed"), 0)
    \* const { type, ... } = req.body stands before the try: a missing body
    \* makes it throw a TypeError that no catch block of handler sees
    ELSE IF rq.body = NoBody THEN [kind |-> "threw", providerCalls |-> 0]
    ELSE IF rq.body.type = JStr("suggestTopics") THEN CallProvider(po, "[]")
    ELSE IF rq.body.type = JStr("generateSection") THEN CallProvider(po, "{}")
    ELSE Respond(400, ErrorBody("Invalid request type"), 0)

(***************************************************************************)
(* Generation Proxy: the prompts. A template literal is the sequence of its *)
(* pieces, fixed text and interpolated values, in order; a text contains a *)
(* clause when the pieces of the clause occur in it, one after the other.  *)
(***************************************************************************)
\* ${v}: the string a JSON value is interpolated as
Str(v) == IF v = Undefined THEN "undefined"
          ELSE IF v = JNull THEN "null"
          ELSE IF "s" \in DOMAIN v THEN v.s
          ELSE IF "b" \in DOMAIN v THEN (IF v.b THEN "true" ELSE "false")
          ELSE "[object Object]"
\* a JSON value used as a condition: undefined, null, "" and false are falsy,
\* every object and every array is truthy
IsTruthy(v) == v \notin {Undefined, JNull, JStr(""), JBool(FALSE)}
\* options?.key
Opt(options, key) == IF options = Undefined THEN Undefined
                     ELSE IF key \in DOMAIN options THEN options[key]
                     ELSE Undefined
\* JSON.stringify of a value, as text: a document is written as its own text
StringifyValue(v) == IF "doc" \in DOMAIN v THEN v.doc
                     ELSE IF "s" \in DOMAIN v THEN "\"" \o v.s \o "\""
                     ELSE Str(v)

WordTask == "Generate an advanced but student-friendly English word with its meaning, antonym (opposite), synonym, and an example sentence."
ThoughtTask == "Generate a short motivational quote from a famous personality. Include the author's name and a very brief 1-line bio."
NewsTask == "Generate 9 news items: 3 International, 3 National (India), and 3 Sports. Each should have a title, a 2-line summary, and a category label."
CelebrationTask == "Tell me what is celebrated or special about this specific date (festivals, international days, etc.). Provide a title and a simple description."
topicText(options) ==
    IF IsTruthy(Opt(options, "customTopic"))
    THEN <<"on the topic: \"", Str(Opt(options, "customTopic")), "\"">>
    ELSE <<>>
lengthText(options) ==
    IF Opt(options, "contentLength") = JStr("Long") THEN "detailed and long (about 250 words)"
    ELSE "concise and short (about 100 words)"
\* the switch on section; a section it does not know leaves the task empty
sectionPrompt(section, options) ==
    CASE section = JStr("word") -> <<WordTask>>
      [] section = JStr("thought") -> <<ThoughtTask>>
      [] section = JStr("news") -> <<NewsTask>>
      [] section = JStr("special_item") ->
             <<"Generate a special assembly segment of type \"",
               IF IsTruthy(Opt(options, "specialType")) THEN Str(Opt(options, "specialType"))
               ELSE "Speech",
               "\" ">> \o topicText(options)
             \o <<". The content should be ", lengthText(options),
                  ". If it's a quiz, include the answer.">>
      [] section = JStr("celebration") -> <<CelebrationTask>>
      [] OTHER -> <<>>

RepetitionGuardHead == "\n\nCRITICAL REPETITION GUARD: The user is requesting NEW content. DO NOT repeat, rephrase, or reuse any part of the following previous content: "
RepetitionGuardTail == ". Your response MUST be 100% unique and different from this."
\* a guard added whenever the options carry the key, whatever its value
Mutant_avoidRepetitionPrompt_KeyPresent(options) ==
    IF options # Undefined /\ "previousContent" \in DOMAIN options
    THEN <<RepetitionGuardHead, StringifyValue(Opt(options, "previousContent")), RepetitionGuardTail>>
    ELSE <<>>
avoidRepetitionPrompt(options) ==
    IF IsTruthy(Opt(options, "previousContent"))
    THEN <<RepetitionGuardHead, StringifyValue(Opt(options, "previousContent")), RepetitionGuardTail>>
    ELSE <<>>

LanguageRule == "CRITICAL LANGUAGE RULE: If Primary Language is \"Hindi\", you MUST generate ALL text content (titles, summaries, meanings, quotes, stories, etc.) in Hindi script (Devanagari). For the \"Word of the Day\", provide a Hindi word with its Hindi meaning and usage."
SafetyRules == "Safety Rules: - Student-safe content only. - No political debate, violence, or adult topics. - Positive and educational tone. Return the response in the specified JSON format."
\* the rule put into the prompt only for the language it is about
Mutant_generatePrompt_RuleForHindiOnly(body, rnd) ==
    <<"Generate school assembly content for the date: ", Str(body.date), ".",
      "Target Audience Difficulty Level: ", Str(body.difficulty), ".",
      "Primary Language: ", Str(body.language), ".">>
    \o (IF body.language = JStr("Hindi") THEN <<LanguageRule>> ELSE <<>>)
    \o <<"Section: ", Str(body.section), ".", "Task: ">>
    \o sectionPrompt(body.section, body.options)
    \o avoidRepetitionPrompt(body.options)
    \o <<"Randomness Factor: ", rnd, SafetyRules>>
\* the prompt of the generateSection branch; rnd is Math.random().toString(36).substring(7)
generatePrompt(body, rnd) ==
    <<"Generate school assembly content for the date: ", Str(body.date), ".",
      "Target Audience Difficulty Level: ", Str(body.difficulty), ".",
      "Primary Language: ", Str(body.language), ".",
      LanguageRule,
      "Section: ", Str(body.section), ".", "Task: ">>
    \o sectionPrompt(body.section, body.options)
    \o avoidRepetitionPrompt(body.options)
    \o <<"Randomness Factor: ", rnd, SafetyRules>>
\* the prompt of the suggestTopics branch
suggestPrompt(body) ==
    <<"Suggest exactly 5 interesting and diverse topics for a school assembly special segment based on the date ",
      Str(body.date),
      ". These could be related to historical events, environmental days, science, or moral values relevant to this time of year. Return the result ",
      IF body.language = JStr("Hindi") THEN "in Hindi script (Devanagari)" ELSE "in English",
      " as a simple JSON array of 5 strings.">>
NoPrompt == [none |-> TRUE]
\* contents[0].parts[0].text of the provider call handler makes for rq, if any
promptOf(rq, rnd) ==
    IF rq.method # "POST" \/ rq.body = NoBody THEN NoPrompt
    ELSE IF rq.body.type = JStr("suggestTopics") THEN suggestPrompt(rq.body)
    ELSE IF rq.body.type = JStr("generateSection") THEN generatePrompt(rq.body, rnd)
    ELSE NoPrompt

(***************************************************************************)
(* Generation Client: generateSection                                      *)
(***************************************************************************)
\* the body of the POST made for an in-flight call r
RequestBody(r) ==
    [type |-> JStr("generateSection"), section |-> JStr(r.section), date |-> JStr(r.date),
     difficulty |-> r.difficulty, language |-> r.language, options |-> r.options]
\* what fetch can resolve with: a response of the Proxy, or the platform's own
\* answer when the function timed out (not JSON)
GatewayTimeout == [kind |-> "response", status |-> 504, body |-> <<LBrace>>, providerCalls |-> 1]
Responses(r) ==
    {handler([method |-> "POST", body |-> RequestBody(r)], po) : po \in ProviderOutcomes}
    \cup {GatewayTimeout}
ResponseOk(resp) == resp.status >= 200 /\ resp.status <= 299
\* `a || b` on a JSON value that is a string or undefined
OrElse(v, dflt) == IF v = Undefined \/ v = JStr("") \/ v = JNull THEN dflt
                   ELSE IF "s" \in DOMAIN v THEN v.s ELSE "[object Object]"
\* the outcome of generateSection once fetch has resolved with resp
generateSection(resp) ==
    LET parsed == JSON_parse(resp.body)
    IN  IF ~parsed.ok THEN [threw |-> TRUE, message |-> "Unexpected token in JSON"]
        ELSE IF ~ResponseOk(resp)
        THEN [threw |-> TRUE,
              message |-> OrElse(IF parsed.isObject THEN Get(parsed.val, "error") ELSE Undefined,
                                 "Failed to generate content")]
        ELSE [threw |-> FALSE, value |-> parsed.val]

\* the outcome of suggestTopics once fetch has resolved with resp
suggestTopics(resp) ==
    LET parsed == JSON_parse(resp.body)
    IN  IF ~parsed.ok THEN [threw |-> TRUE, message |-> "Unexpected token in JSON"]
        ELSE IF ~ResponseOk(resp)
        THEN [threw |-> TRUE,
              message |-> OrElse(IF parsed.isObject THEN Get(parsed.val, "error") ELSE Undefined,
                                 "Failed to suggest topics")]
        ELSE [threw |-> FALSE, value |-> parsed.val]
\* fetch itself rejected: neither function catches it
FetchFailed == [threw |-> TRUE, message |-> "Failed to fetch"]

(***************************************************************************)
(* UI Shell: App                                                           *)
(***************************************************************************)
NoError == "null"
NoInternet == "No internet connection."
FailedToGenerate(section) == "Failed to generate " \o section \o ". Please try again."
\* every instant of the model falls on this day
DateOf(n) == "2024-01-15"
Dates == {"2024-01-15", "2024-08-15"}

\* a default of light mode
Mutant_DefaultSettings_LightMode ==
    <<[k |-> "difficulty", v |-> JStr("Middle")],
      [k |-> "language", v |-> JStr("English")],
      [k |-> "themeColor", v |-> JStr("#6366f1")],
      [k |-> "isDarkMode", v |-> JBool(FALSE)]>>

DefaultSettings == <<[k |-> "difficulty", v |-> JStr("Middle")],
                     [k |-> "language", v |-> JStr("English")],
                     [k |-> "themeColor", v |-> JStr("#6366f1")],
                     [k |-> "isDarkMode", v |-> JBool(TRUE)]>>
DefaultData(n) == <<[k |-> "timestamp", v |-> JTime(n)]>>

\* useState initializers: the value, or threw = TRUE when JSON.parse throws
dataInitializer ==
    LET saved == getItem("assembly_data_v2")
    IN  IF Truthy(saved) THEN JSON_parse(saved.text)
        ELSE [ok |-> TRUE, isObject |-> TRUE, val |-> DefaultData(now)]
settingsInitializer ==
    LET saved == getItem("assembly_settings_v2")
    IN  IF Truthy(saved) THEN JSON_parse(saved.text)
        ELSE [ok |-> TRUE, isObject |-> TRUE, val |-> DefaultSettings]

\* the settings written under the key of the previous storage version, which the
\* initializer does not read
Mutant_PersistSettings_OldKey(st, newSettings) == st

\* the persistence effects, run after a render in which their dependency changed
PersistSettings(st, newSettings) == setItem(st, "assembly_settings_v2", JSON_stringify(newSettings))
PersistData(st, newData) == setItem(st, "assembly_data_v2", JSON_stringify(newData))

\* the record kept in lastOp: the operation, the section of a request started or
\* completed, the HTTP status it got (0: none) and the value it received
OpWith(name, section, status, result) ==
    [op |-> name, section |-> section, status |-> status, result |-> result]
Op(name, section) == OpWith(name, section, 0, Undefined)
\* what the two getItem calls of a page load returned
Saved == [settings |-> getItem("assembly_settings_v2"), data |-> getItem("assembly_data_v2")]

\* what a page load leaves behind when an initializer throws (or the stored
\* document is null, whose properties the first render reads): nothing is mounted
Crash ==
    /\ phase' = "crashed"
    /\ UNCHANGED <<storage, data, settings, loadingSections, error, selectedDate, isOnline,
                   customTopic, specialType, contentLength, requests>>

\* the first render of App and its mount effects
Render(onLine) ==
    LET d == dataInitializer
        s == settingsInitializer
    IN  IF d.ok /\ s.ok /\ d.isObject /\ s.isObject
        THEN /\ phase' = "running"
             /\ data' = d.val
             /\ settings' = s.val
             /\ loadingSections' = [x \in Sections |-> "undefined"]
             /\ error' = NoError
             /\ selectedDate' = DateOf(now)
             /\ isOnline' = onLine
             /\ customTopic' = ""
             /\ specialType' = "Speech"
             /\ contentLength' = "Short"
             /\ requests' = {}
             /\ storage' = PersistData(PersistSettings(storage, s.val), d.val)
        ELSE Crash

Mount ==
    /\ phase = "unmounted"
    /\ \E onLine \in BOOLEAN : Render(onLine)
    /\ lastOp' = OpWith("mount", "", 0, Saved)
    /\ UNCHANGED <<netCalls, now, edits, reloads, proxyVars>>

\* the user reloads the page: the old page and its pending callbacks are gone
Reload ==
    /\ phase = "running"
    /\ reloads < MaxReloads
    /\ reloads' = reloads + 1
    /\ \E onLine \in BOOLEAN : Render(onLine)
    /\ lastOp' = OpWith("reload", "", 0, Saved)
    /\ UNCHANGED <<netCalls, now, edits, proxyVars>>

\* time passes. The page is opened at instant 1; from then on the clock is read
\* only when a result is applied, so only the ticks a pending request can see
\* are modelled
Tick ==
    /\ requests # {}
    /\ now < MaxClock + 1
    /\ now' = now + 1
    /\ lastOp' = Op("other", "")
    /\ UNCHANGED <<phase, storage, data, settings, loadingSections, error, selectedDate,
                   isOnline, customTopic, specialType, contentLength, requests, netCalls,
                   edits, reloads, proxyVars>>

\* window 'online' / 'offline' events
handleOnline ==
    /\ phase = "running" /\ ~isOnline
    /\ isOnline' = TRUE
    /\ lastOp' = Op("other", "")
    /\ UNCHANGED <<phase, storage, data, settings, loadingSections, error, selectedDate,
                   customTopic, specialType, contentLength, requests, netCalls,
                   now, edits, reloads, proxyVars>>
handleOffline ==
    /\ phase = "running" /\ isOnline
    /\ isOnline' = FALSE
    /\ lastOp' = Op("other", "")
    /\ UNCHANGED <<phase, storage, data, settings, loadingSections, error, selectedDate,
                   customTopic, specialType, contentLength, requests, netCalls,
                   now, edits, reloads, proxyVars>>

\* onChange / onClick of the settings controls: setSettings({...settings, [key]: value})
\* followed by the settings effect
SetSettings(key, value) ==
    /\ phase = "running"
    /\ edits < MaxEdits
    /\ Get(settings, key) # value
    /\ settings' = Put(settings, key, value)
    /\ storage' = PersistSettings(storage, settings')
    /\ edits' = edits + 1
    /\ lastOp' = Op("other", "")
    /\ UNCHANGED <<phase, data, loadingSections, error, selectedDate, isOnline, customTopic,
                   specialType, contentLength, requests, netCalls, now,
                   reloads, proxyVars>>
SetDifficulty == \E d \in {"Middle", "Senior"} : SetSettings("difficulty", JStr(d))
SetLanguage == \E l \in Languages : SetSettings("language", JStr(l))
SetThemeColor == \E c \in {"#6366f1", "#ec4899"} : SetSettings("themeColor", JStr(c))
\* !settings.isDarkMode
ToggleDarkMode == SetSettings("isDarkMode", JBool(Get(settings, "isDarkMode") # JBool(TRUE)))

\* a date change that starts the day's content afresh
Mutant_SetSelectedDate_ClearsData ==
    /\ phase = "running"
    /\ edits < MaxEdits
    /\ \E d \in Dates \ {selectedDate} : selectedDate' = d
    /\ edits' = edits + 1
    /\ lastOp' = Op("setSelectedDate", "")
    /\ data' = DefaultData(now)
    /\ storage' = PersistData(storage, data')
    /\ UNCHANGED <<phase, settings, loadingSections, error, isOnline,
                   customTopic, specialType, contentLength, requests, netCalls,
                   now, reloads, proxyVars>>
\* the date picker and the segment form: plain state cells
SetSelectedDate ==
    /\ phase = "running"
    /\ edits < MaxEdits
    /\ \E d \in Dates \ {selectedDate} : selectedDate' = d
    /\ edits' = edits + 1
    /\ lastOp' = Op("setSelectedDate", "")
    /\ UNCHANGED <<phase, storage, data, settings, loadingSections, error, isOnline,
                   customTopic, specialType, contentLength, requests, netCalls,
                   now, reloads, proxyVars>>
SetCustomTopic ==
    /\ phase = "running"
    /\ edits < MaxEdits
    /\ \E t \in Topics \ {customTopic} : customTopic' = t
    /\ edits' = edits + 1
    /\ lastOp' = Op("other", "")
    /\ UNCHANGED <<phase, storage, data, settings, loadingSections, error, selectedDate,
                   isOnline, specialType, contentLength, requests, netCalls,
                   now, reloads, proxyVars>>
SetSpecialType ==
    /\ phase = "running"
    /\ edits < MaxEdits
    /\ \E t \in {"Speech", "Quiz"} \ {specialType} : specialType' = t
    /\ edits' = edits + 1
    /\ lastOp' = Op("other", "")
    /\ UNCHANGED <<phase, storage, data, settings, loadingSections, error, selectedDate,
                   isOnline, customTopic, contentLength, requests, netCalls,
                   now, reloads, proxyVars>>
SetContentLength ==
    /\ phase = "running"
    /\ edits < MaxEdits
    /\ \E l \in ContentLengths \ {contentLength} : contentLength' = l
    /\ edits' = edits + 1
    /\ lastOp' = Op("other", "")
    /\ UNCHANGED <<phase, storage, data, settings, loadingSections, error, selectedDate,
                   isOnline, customTopic, specialType, requests, netCalls,
                   now, reloads, proxyVars>>

(***************************************************************************)
(* handleGenerateSection                                                   *)
(***************************************************************************)
\* a guard that reports the error but does not return
Mutant_OfflineGuard_NoReturn(section) ==
    /\ ~isOnline
    /\ error' = NoInternet
    /\ lastOp' = Op("generateOffline", "")
    /\ loadingSections' = [loadingSections EXCEPT ![section] = "true"]
    /\ UNCHANGED <<requests, netCalls>>

\* if (!isOnline) { setError("No internet connection."); return; }
OfflineGuard(section) ==
    /\ ~isOnline
    /\ error' = NoInternet
    /\ lastOp' = Op("generateOffline", "")
    /\ UNCHANGED <<loadingSections, requests, netCalls>>

\* a call that leaves the previous content out
Mutant_NewRequest_NoPreviousContent(section) ==
    [id |-> netCalls + 1,
     section |-> section,
     date |-> selectedDate,
     difficulty |-> Get(settings, "difficulty"),
     language |-> Get(settings, "language"),
     options |-> [specialType |-> specialType,
                  customTopic |-> customTopic,
                  contentLength |-> contentLength,
                  previousContent |-> Undefined]]

\* the call generateSection(section, selectedDate, ...) as captured when it is made
NewRequest(section) ==
    [id |-> netCalls + 1,
     section |-> section,
     date |-> selectedDate,
     difficulty |-> Get(settings, "difficulty"),
     language |-> Get(settings, "language"),
     options |-> [specialType |-> specialType,
                  customTopic |-> customTopic,
                  contentLength |-> contentLength,
                  previousContent |-> Get(data, section)]]

\* setLoadingSections(prev => ({...prev, [section]: true})); setError(null); fetch
StartRequest(section) ==
    /\ isOnline
    /\ netCalls < MaxRequests
    /\ loadingSections' = [loadingSections EXCEPT ![section] = "true"]
    /\ error' = NoError
    /\ requests' = requests \cup {NewRequest(section)}
    /\ netCalls' = netCalls + 1
    /\ lastOp' = Op("generateStart", section)

handleGenerateSection(section) ==
    /\ phase = "running"
    /\ (OfflineGuard(section) \/ StartRequest(section))
    /\ UNCHANGED <<phase, storage, data, settings, selectedDate, isOnline, customTopic,
                   specialType, contentLength, now, edits, reloads, proxyVars>>

\* setData({[section]: result, timestamp: ...}): the spread of prev forgotten
Mutant_ApplyResult_NoSpread(r, result) ==
    /\ data' = <<[k |-> r.section, v |-> result], [k |-> "timestamp", v |-> JTime(now)]>>
    /\ storage' = PersistData(storage, data')
    /\ UNCHANGED error

\* a result dropped when a request for the same section was issued after its own
Mutant_ApplyResult_LatestIssuedOnly(r, result) ==
    /\ data' = IF \E r2 \in requests : r2.section = r.section /\ r2.id > r.id
               THEN data
               ELSE Put(Put(data, r.section, result), "timestamp", JTime(now))
    /\ storage' = PersistData(storage, data')
    /\ UNCHANGED error

\* setData(prev => ({...prev, [section]: result, timestamp: new Date().toISOString()}))
\* followed by the data effect
ApplyResult(r, result) ==
    /\ data' = Put(Put(data, r.section, result), "timestamp", JTime(now))
    /\ storage' = PersistData(storage, data')
    /\ UNCHANGED error

\* setError(err.message): the detail shown instead of the per-section message
Mutant_CatchFailure_ShowsDetail(r, message) ==
    /\ error' = message
    /\ UNCHANGED <<data, storage>>

\* catch (err) { console.error(err); setError(`Failed to generate ${section}. ...`) }
CatchFailure(r, message) ==
    /\ error' = FailedToGenerate(r.section)
    /\ UNCHANGED <<data, storage>>

\* the flag cleared at the end of the try block instead of in finally
Mutant_Finally_InTry(r) ==
    loadingSections' = IF data' # data
                       THEN [loadingSections EXCEPT ![r.section] = "false"]
                       ELSE loadingSections

\* finally { setLoadingSections(prev => ({...prev, [section]: false})) }
Finally(r) ==
    loadingSections' = [loadingSections EXCEPT ![r.section] = "false"]

\* fetch resolved: the rest of generateSection, then the rest of handleGenerateSection
FetchResolves(r) ==
    /\ phase = "running"
    /\ r \in requests
    /\ \E resp \in Responses(r) :
          LET out == generateSection(resp)
          IN  /\ IF out.threw THEN CatchFailure(r, out.message) ELSE ApplyResult(r, out.value)
              /\ lastOp' = OpWith("generateCompleted", r.section, resp.status,
                                  IF out.threw THEN Undefined ELSE out.value)
    /\ Finally(r)
    /\ requests' = requests \ {r}
    /\ UNCHANGED <<phase, settings, selectedDate, isOnline, customTopic, specialType,
                   contentLength, netCalls, now, edits, reloads, proxyVars>>

\* fetch rejected (no connection to the Proxy)
FetchRejects(r) ==
    /\ phase = "running"
    /\ r \in requests
    /\ CatchFailure(r, "Failed to fetch")
    /\ lastOp' = Op("generateCompleted", r.section)
    /\ Finally(r)
    /\ requests' = requests \ {r}
    /\ UNCHANGED <<phase, settings, selectedDate, isOnline, customTopic, specialType,
                   contentLength, netCalls, now, edits, reloads, proxyVars>>

(***************************************************************************)
(* Greeting, speech and download                                           *)
(***************************************************************************)
\* every cell of App but lastOp
appCells == <<phase, storage, data, settings, loadingSections, error, selectedDate,
              isOnline, customTopic, specialType, contentLength, requests, netCalls,
              now, edits, reloads>>

\* a morning that lasts through the hour of noon
Mutant_GreetingAt_NoonIsMorning(h) ==
    IF h <= 12 THEN "Good Morning"
    ELSE IF h < 17 THEN "Good Afternoon"
    ELSE "Good Evening"
\* updateGreeting, for the hour the clock shows
GreetingAt(h) ==
    IF h < 12 THEN "Good Morning"
    ELSE IF h < 17 THEN "Good Afternoon"
    ELSE "Good Evening"
\* the mount effect: updateGreeting() once App has rendered
GreetingEffect == greeting' = IF phase' = "running" THEN GreetingAt(hour) ELSE greeting
\* the callback of setInterval(updateGreeting, 60000)
updateGreeting ==
    /\ phase = "running"
    /\ greeting' = GreetingAt(hour)
    /\ lastOp' = Op("updateGreeting", "")
    /\ UNCHANGED <<appCells, proxyVars, isSpeaking, synth, suggestVars, hour, downloads>>
\* the clock reaches the next hour
HourPasses ==
    /\ hour' = (hour + 1) % 24
    /\ lastOp' = Op("other", "")
    /\ UNCHANGED <<appCells, proxyVars, isSpeaking, synth, suggestVars, greeting, downloads>>

\* speechSynthesis.getVoices(): the languages of the installed voices
VoiceLists == {<<>>, <<"en-GB", "hi-IN", "en-US">>}
SpokenTexts == {"Hello", "Namaste"}
\* voices.find(v => v.lang.includes(part)): the first voice whose tag has the part
LangIncludes(lang, part) == \/ part = "hi" /\ lang = "hi-IN"
                            \/ part = "en" /\ lang \in {"en-GB", "en-US"}
FindVoice(voices, part) ==
    IF \E i \in 1..Len(voices) : LangIncludes(voices[i], part)
    THEN voices[CHOOSE i \in 1..Len(voices) :
                    /\ LangIncludes(voices[i], part)
                    /\ \A j \in 1..(i - 1) : ~LangIncludes(voices[j], part)]
    ELSE "default"
\* new SpeechSynthesisUtterance(text) with its lang and voice set
Utterance(text, voices) ==
    IF Get(settings, "language") = JStr("Hindi")
    THEN [text |-> text, lang |-> "hi-IN", voice |-> FindVoice(voices, "hi")]
    ELSE [text |-> text, lang |-> "en-US", voice |-> FindVoice(voices, "en")]

\* a cancel branch that does not return
Mutant_handleSpeak_NoReturn(text, voices) ==
    /\ phase = "running"
    /\ synth' = (IF isSpeaking THEN <<>> ELSE synth) \o <<Utterance(text, voices)>>
    /\ isSpeaking' = TRUE
    /\ lastOp' = OpWith("handleSpeak", "", 0, JStr(text))
    /\ UNCHANGED <<appCells, proxyVars, suggestVars,
                   greeting, hour, downloads>>
\* speechSynthesis.cancel() empties the queue; speak() puts the utterance last
handleSpeak(text, voices) ==
    /\ phase = "running"
    /\ IF isSpeaking
       THEN /\ synth' = <<>>
            /\ isSpeaking' = FALSE
       ELSE /\ synth' = Append(synth, Utterance(text, voices))
            /\ isSpeaking' = TRUE
    /\ lastOp' = OpWith("handleSpeak", "", 0, JStr(text))
    /\ UNCHANGED <<appCells, proxyVars, suggestVars,
                   greeting, hour, downloads>>
\* the spoken utterance is through: its 'end' event runs utterance.onend
UtteranceEnds ==
    /\ phase = "running"
    /\ synth # <<>>
    /\ synth' = Tail(synth)
    /\ isSpeaking' = FALSE
    /\ lastOp' = Op("utteranceEnd", "")
    /\ UNCHANGED <<appCells, proxyVars, suggestVars,
                   greeting, hour, downloads>>
\* synthesis fails: an 'error' event, for which the utterance has no handler
UtteranceFails ==
    /\ phase = "running"
    /\ synth # <<>>
    /\ synth' = Tail(synth)
    /\ lastOp' = Op("utteranceError", "")
    /\ UNCHANGED <<appCells, proxyVars, isSpeaking, suggestVars, greeting, hour, downloads>>

\* the property `content` of a section value
ContentOf(v) == IF v = JDoc("A") THEN JStr("Hello World") ELSE Undefined
\* a download that does not look whether there is a segment
Mutant_downloadAsText_NoGuard ==
    /\ phase = "running"
    /\ Len(downloads) < MaxDownloads
    /\ downloads' = Append(downloads,
                           [name |-> "Special_Segment_" \o selectedDate \o ".txt",
                            text |-> Str(ContentOf(Get(data, "special_item")))])
    /\ lastOp' = Op("downloadAsText", "")
    /\ UNCHANGED <<appCells, proxyVars, isSpeaking, synth, suggestVars, greeting, hour>>
\* new Blob([content]) holds the content as a string; a.click() saves it
downloadAsText ==
    /\ phase = "running"
    /\ Len(downloads) < MaxDownloads
    /\ downloads' = IF ~IsTruthy(Get(data, "special_item")) THEN downloads
                    ELSE Append(downloads,
                                [name |-> "Special_Segment_" \o selectedDate \o ".txt",
                                 text |-> Str(ContentOf(Get(data, "special_item")))])
    /\ lastOp' = Op("downloadAsText", "")
    /\ UNCHANGED <<appCells, proxyVars, isSpeaking, synth, suggestVars, greeting, hour>>

(***************************************************************************)
(* Topic suggestions: the effect on [selectedDate, isOnline, language]     *)
(***************************************************************************)
\* fetchSuggestions() up to its await, run by the render that a step ends in:
\* it sees the isOnline, selectedDate and settings of that render
fetchSuggestions ==
    IF phase' = "running" /\ isOnline'
    THEN /\ suggestCalls < MaxSuggests
         /\ isSuggesting' = TRUE
         /\ suggestCalls' = suggestCalls + 1
         /\ suggestRequests' = suggestRequests \cup
                {[id |-> suggestCalls + 1, date |-> selectedDate',
                  language |-> Get(settings', "language")]}
         /\ UNCHANGED suggestedTopicsList
    ELSE UNCHANGED suggestVars
\* the steps after which the effect runs: the first render, and every render
\* in which selectedDate, isOnline or settings.language differs from the last
MountWithEffects ==
    /\ Mount
    /\ GreetingEffect
    /\ fetchSuggestions
    /\ UNCHANGED <<isSpeaking, synth, hour, downloads>>
DependencyChanges ==
    /\ (handleOnline \/ handleOffline \/ SetSelectedDate \/ SetLanguage)
    /\ fetchSuggestions
    /\ UNCHANGED <<isSpeaking, synth, greeting, hour, downloads>>

\* the body of the POST made for an in-flight call q, and what fetch can resolve with
SuggestBody(q) == [type |-> JStr("suggestTopics"), date |-> JStr(q.date), language |-> q.language]
SuggestResponses(q) ==
    {handler([method |-> "POST", body |-> SuggestBody(q)], po) : po \in ProviderOutcomes}
    \cup {GatewayTimeout}
\* a catch that empties the list and tells the user
Mutant_SuggestSettles_ShowsError(q, out, status) ==
    /\ phase = "running"
    /\ q \in suggestRequests
    /\ suggestedTopicsList' = IF out.threw THEN JDoc("[]") ELSE out.value
    /\ error' = IF out.threw THEN out.message ELSE error
    /\ isSuggesting' = FALSE
    /\ suggestRequests' = suggestRequests \ {q}
    /\ lastOp' = OpWith("suggestCompleted", "", status,
                        IF out.threw THEN Undefined ELSE out.value)
    /\ UNCHANGED <<phase, storage, data, settings, loadingSections, selectedDate,
                   isOnline, customTopic, specialType, contentLength, requests, netCalls,
                   now, edits, reloads, proxyVars, suggestCalls, isSpeaking, synth,
                   greeting, hour, downloads>>
\* the rest of fetchSuggestions once suggestTopics has returned or thrown:
\* setSuggestedTopicsList(suggestions), or console.error; then the finally block
SuggestSettles(q, out, status) ==
    /\ phase = "running"
    /\ q \in suggestRequests
    /\ suggestedTopicsList' = IF out.threw THEN suggestedTopicsList ELSE out.value
    /\ isSuggesting' = FALSE
    /\ suggestRequests' = suggestRequests \ {q}
    /\ lastOp' = OpWith("suggestCompleted", "", status,
                        IF out.threw THEN Undefined ELSE out.value)
    /\ UNCHANGED <<appCells, proxyVars, suggestCalls, isSpeaking, synth, greeting, hour,
                   downloads>>
SuggestResolves(q) == \E resp \in SuggestResponses(q) : SuggestSettles(q, suggestTopics(resp), resp.status)
SuggestRejects(q) == SuggestSettles(q, FetchFailed, 0)

(***************************************************************************)
(* The Proxy endpoint on its own                                           *)
(***************************************************************************)
NoRequest == [none |-> TRUE]
\* options of a request: none, or the fields the Client sends, some of which a
\* caller may leave out; the previous content may be any JSON value
PreviousContents == {Undefined, JDoc("A"), JDoc("{}"), JStr(""), JNull}
ProxyOptions ==
    {Undefined}
    \cup {[specialType |-> f[1], customTopic |-> f[2], contentLength |-> JStr("Long"),
           previousContent |-> p] :
          f \in {<<Undefined, Undefined>>, <<JStr("Quiz"), JStr("Space")>>},
          p \in PreviousContents}
RandomFactors == {"k3x9f", "0q7zt"}
Body(t, s, l, o) ==
    [type |-> t, section |-> JStr(s), date |-> JStr("2024-01-15"),
     difficulty |-> JStr("Middle"), language |-> JStr(l), options |-> o]
Bodies ==
    {NoBody}
    \cup {Body(JStr("generateSection"), s, l, o) :
          s \in Sections, l \in Languages, o \in ProxyOptions}
    \cup {Body(t, "word", l, Undefined) :
          t \in {JStr("suggestTopics"), JStr("unknown"), Undefined}, l \in Languages}
HttpRequests ==
    {[method |-> "POST", body |-> b] : b \in Bodies}
    \cup {[method |-> m, body |-> b] :
          m \in {"GET", "DELETE"},
          b \in {NoBody, Body(JStr("generateSection"), "word", "English", Undefined)}}

\* one invocation of handler by the platform
Handle(rq, po, rnd) ==
    /\ handled < MaxHandled
    /\ req' = rq
    /\ provider' = po
    /\ prompt' = promptOf(rq, rnd)
    /\ res' = [x \in DOMAIN handler(rq, po) \ {"providerCalls"} |-> handler(rq, po)[x]]
    /\ providerCalls' = handler(rq, po).providerCalls
    /\ handled' = handled + 1
    /\ UNCHANGED <<appVars, shellVars>>

(***************************************************************************)
(* The Generation Client on its own                                        *)
(***************************************************************************)
\* what fetch can settle with: a response of any status whose body is an error
\* object, a document, an object without error, or no JSON at all; or a rejection
HttpStatuses == {200, 400, 405, 500, 504}
ResponseBodies ==
    {ErrorBody("quota exceeded"), ErrorBody("Internal Server Error"), ErrorBody(""),
     <<LBrace, RBrace>>, <<Lit(JDoc("A"))>>, <<LBrace>>, <<>>}
FetchOutcomes ==
    {[kind |-> "response", status |-> st, body |-> b] : st \in HttpStatuses, b \in ResponseBodies}
    \cup {[kind |-> "rejected", status |-> 0]}
\* one call of generateSection or suggestTopics, up to its return or throw
ClientCall(fn, out) ==
    /\ netCalls < MaxRequests
    /\ netCalls' = netCalls + 1
    /\ res' = out
    /\ lastOp' = OpWith(fn, "", out.status,
                        IF out.kind = "rejected" THEN FetchFailed
                        ELSE IF fn = "generateSection" THEN generateSection(out)
                        ELSE suggestTopics(out))
    /\ UNCHANGED <<phase, storage, data, settings, loadingSections, error, selectedDate,
                   isOnline, customTopic, specialType, contentLength, requests, now,
                   edits, reloads, req, provider, providerCalls, handled, prompt, shellVars>>

(***************************************************************************)
(* Specifications                                                          *)
(***************************************************************************)
\* what an earlier session, or anything else, may have left in local storage
SavedSettings == <<[k |-> "difficulty", v |-> JStr("Senior")],
                   [k |-> "language", v |-> JStr("Hindi")],
                   [k |-> "themeColor", v |-> JStr("#ec4899")],
                   [k |-> "isDarkMode", v |-> JBool(FALSE)]>>
SavedData == <<[k |-> "timestamp", v |-> JTime(0)], [k |-> "word", v |-> JDoc("B")]>>
Store(s, d) == [assembly_settings_v2 |-> s, assembly_data_v2 |-> d]
InitialStorages ==
    {Store(NoItem, NoItem),
     Store(Item(<<>>), Item(<<>>)),
     Store(Item(JSON_stringify(SavedSettings)), Item(JSON_stringify(SavedData))),
     Store(Item(<<LBrace>>), NoItem),
     Store(NoItem, Item(<<LBrace, Lit(JStr("timestamp"))>>)),
     Store(Item(<<Lit(JNull)>>), NoItem)}

AppUnmounted ==
    /\ phase = "unmounted"
    /\ data = <<>>
    /\ settings = <<>>
    /\ loadingSections = [x \in Sections |-> "undefined"]
    /\ error = NoError
    /\ selectedDate = DateOf(1)
    /\ isOnline = TRUE
    /\ customTopic = ""
    /\ specialType = "Speech"
    /\ contentLength = "Short"
    /\ requests = {}
    /\ netCalls = 0
    /\ now = 1
    /\ edits = 0
    /\ reloads = 0
    /\ lastOp = Op("none", "")
ProxyIdle ==
    /\ req = NoRequest
    /\ res = NoRequest
    /\ provider = NoRequest
    /\ providerCalls = 0
    /\ handled = 0
    /\ prompt = NoPrompt
\* the cells of App that generation and persistence neither read nor write
ShellIdle ==
    /\ isSpeaking = FALSE
    /\ synth = <<>>
    /\ isSuggesting = FALSE
    /\ suggestedTopicsList = JDoc("[]")
    /\ suggestRequests = {}
    /\ suggestCalls = 0
    /\ greeting = ""
    /\ hour = 0
    /\ downloads = <<>>

Init == AppUnmounted /\ ProxyIdle /\ ShellIdle /\ storage \in InitialStorages

\* Spec follows data, settings, storage, the loading flags, the error and the
\* requests of handleGenerateSection. The suggestion, speech, greeting and
\* download cells, which none of these steps reads or writes, stay idle here;
\* SuggestSpec and ShellSpec follow them.
Next ==
    /\ \/ Mount
       \/ Reload
       \/ Tick
       \/ handleOnline
       \/ handleOffline
       \/ SetDifficulty
       \/ SetLanguage
       \/ SetThemeColor
       \/ ToggleDarkMode
       \/ SetSelectedDate
       \/ SetCustomTopic
       \/ SetSpecialType
       \/ SetContentLength
       \/ \E section \in Sections : handleGenerateSection(section)
       \/ \E r \in requests : FetchResolves(r)
       \/ \E r \in requests : FetchRejects(r)
    /\ UNCHANGED shellVars

Spec == Init /\ [][Next]_vars

\* Every fetch eventually resolves or rejects. The steps that neither read nor
\* write the loading flags and the requests (the clock, the form edits) are left
\* out of this specification.
Settles(i) ==
    /\ \E r \in requests : r.id = i /\ (FetchResolves(r) \/ FetchRejects(r))
    /\ UNCHANGED shellVars
FairNext ==
    /\ \/ Mount
       \/ Reload
       \/ handleOnline
       \/ handleOffline
       \/ \E section \in Sections : handleGenerateSection(section)
       \/ \E r \in requests : FetchResolves(r)
       \/ \E r \in requests : FetchRejects(r)
    /\ UNCHANGED shellVars
FairSpec == Init /\ [][FairNext]_vars /\ \A i \in 1..MaxRequests : WF_vars(Settles(i))

ProxyInit == AppUnmounted /\ ProxyIdle /\ ShellIdle /\ storage = Store(NoItem, NoItem)
ProxyNext == \E rq \in HttpRequests, po \in ProviderOutcomes, rnd \in RandomFactors :
                 Handle(rq, po, rnd)
ProxySpec == ProxyInit /\ [][ProxyNext]_vars

\* ShellSpec follows the greeting, the speech synthesis and the downloads of a
\* page opened at any hour over a storage with or without a special segment; the
\* suggestion cells stay idle in it.
StoredData(item) == <<[k |-> "timestamp", v |-> JTime(0)], [k |-> "special_item", v |-> item]>>
ShellStorages ==
    {Store(NoItem, NoItem)}
    \cup {Store(Item(JSON_stringify(SavedSettings)), Item(JSON_stringify(StoredData(v)))) :
          v \in {JDoc("A"), JDoc("{}"), JNull}}
ShellInit ==
    /\ AppUnmounted /\ ProxyIdle
    /\ isSpeaking = FALSE /\ synth = <<>>
    /\ isSuggesting = FALSE /\ suggestedTopicsList = JDoc("[]")
    /\ suggestRequests = {} /\ suggestCalls = 0
    /\ greeting = "" /\ downloads = <<>>
    /\ hour \in 0..23
    /\ storage \in ShellStorages
ShellNext ==
    \/ /\ Mount
       /\ GreetingEffect
       /\ UNCHANGED <<isSpeaking, synth, suggestVars,
                      hour, downloads>>
    \/ (SetSelectedDate \/ SetLanguage) /\ UNCHANGED shellVars
    \/ HourPasses
    \/ updateGreeting
    \/ \E text \in SpokenTexts, voices \in VoiceLists : handleSpeak(text, voices)
    \/ UtteranceEnds
    \/ UtteranceFails
    \/ downloadAsText
ShellSpec == ShellInit /\ [][ShellNext]_vars

\* SuggestSpec follows the suggestions next to generation: every step that ends
\* in a render with a changed dependency runs the suggestion effect.
SuggestInit ==
    /\ AppUnmounted /\ ProxyIdle /\ ShellIdle
    /\ storage \in {Store(NoItem, NoItem),
                     Store(Item(JSON_stringify(SavedSettings)), Item(JSON_stringify(SavedData)))}
SuggestNext ==
    \/ MountWithEffects
    \/ DependencyChanges
    \/ (\E section \in {"word", "special_item"} : handleGenerateSection(section))
           /\ UNCHANGED shellVars
    \/ (\E r \in requests : FetchResolves(r) \/ FetchRejects(r)) /\ UNCHANGED shellVars
    \/ \E q \in suggestRequests : SuggestResolves(q)
    \/ \E q \in suggestRequests : SuggestRejects(q)
SuggestSpec == SuggestInit /\ [][SuggestNext]_vars

ClientNext == \E fn \in {"generateSection", "suggestTopics"}, out \in FetchOutcomes :
                  ClientCall(fn, out)
ClientSpec == ProxyInit /\ [][ClientNext]_vars

(***************************************************************************)
(* Properties                                                              *)
(***************************************************************************)
Completed == lastOp.op = "generateCompleted"
Succeeded == Completed /\ lastOp.result # Undefined
Failed == Completed /\ lastOp.result = Undefined
InFlight(section) == \E r \in requests : r.section = section

\* C1: a call of handleGenerateSection made while isOnline is false issues no
\* network request, leaves the error "No internet connection." and changes no
\* loading flag.
C1_OfflineShortCircuit ==
    [][lastOp'.op = "generateOffline" =>
          /\ ~isOnline
          /\ netCalls' = netCalls
          /\ requests' = requests
          /\ error' = NoInternet
          /\ loadingSections' = loadingSections]_vars
\* an offline call made while a request is in flight and its flag is set
C1_Witness ==
    /\ lastOp.op = "generateOffline"
    /\ ~isOnline
    /\ error = NoInternet
    /\ \E x \in Sections : InFlight(x) /\ loadingSections[x] = "true"

\* C2: when a successful response for section s is applied, data[s] becomes the
\* returned result, the timestamp becomes the current instant and every other
\* section keeps the value it had; and any step of handleGenerateSection(s)
\* (the offline guard, the start of the request, its completion) leaves the
\* loading flags of the other sections as they were.
C2_PerSectionIsolation ==
    [][/\ Succeeded' =>
              /\ Get(data', lastOp'.section) = lastOp'.result
              /\ Get(data', "timestamp") = JTime(now)
              /\ \A x \in Sections \ {lastOp'.section} : Get(data', x) = Get(data, x)
       /\ lastOp'.op \in {"generateStart", "generateCompleted"} =>
              \A x \in Sections \ {lastOp'.section} :
                  loadingSections'[x] = loadingSections[x]
       /\ lastOp'.op = "generateOffline" => loadingSections' = loadingSections]_vars
\* a result applied while a request for another section is still in flight and
\* a third section already holds a value
C2_Witness ==
    /\ Succeeded
    /\ \E r \in requests : r.section # lastOp.section
    /\ \E x \in Sections \ {lastOp.section} : Has(data, x)
    /\ Get(data, "timestamp") # JTime(0)

\* C3: the completion of a request for s, successful or not, clears the loading
\* flag of s; no flag is set while no request is outstanding; and, every
\* request eventually resolving or rejecting, a set flag is eventually cleared.
C3_FlagClearedOnCompletion ==
    /\ Completed => loadingSections[lastOp.section] = "false"
    /\ requests = {} => \A x \in Sections : loadingSections[x] # "true"
C3_LoadingEventuallyCleared ==
    /\ []C3_FlagClearedOnCompletion
    /\ \A x \in Sections : (loadingSections[x] = "true") ~> (loadingSections[x] # "true")
\* a failed request, the last one outstanding, has cleared its flag
C3_Witness ==
    /\ Failed
    /\ netCalls = MaxRequests
    /\ requests = {}
    /\ loadingSections[lastOp.section] = "false"

\* C4: when a request for s fails (a response whose status is not 2xx, or no
\* response at all), the error becomes "Failed to generate {s}. Please try
\* again." and data, with the value of s and the timestamp, stays as it was.
C4_GenerationFailure ==
    [][(Completed' /\ (lastOp'.status < 200 \/ lastOp'.status > 299)) =>
          /\ error' = "Failed to generate " \o lastOp'.section \o ". Please try again."
          /\ data' = data
          /\ storage' = storage]_vars
\* the Proxy answered 500 for a section that holds a value
C4_Witness ==
    /\ Completed
    /\ lastOp.status = 500
    /\ Has(data, lastOp.section)
    /\ error = FailedToGenerate(lastOp.section)

\* C5: a page reload (a fresh session run against what the persistence effects
\* wrote) yields the AssemblyData and the AppSettings the page held, member for
\* member.
C5_RoundTripPersistence ==
    [][lastOp'.op = "reload" =>
          /\ phase' = "running"
          /\ data' = data
          /\ settings' = settings]_vars
\* a reload of settings other than the defaults and of data with two sections
C5_Witness ==
    /\ lastOp.op = "reload"
    /\ phase = "running"
    /\ settings # DefaultSettings
    /\ Get(settings, "isDarkMode") = JBool(FALSE)
    /\ Len(data) >= 3

\* C6: a page load that finds the content of assembly_settings_v2 or of
\* assembly_data_v2 absent or not parseable as JSON starts with the default
\* AppSettings, respectively with an empty AssemblyData stamped with the
\* current time.
Unusable(item) == ~item.present \/ ~JSON_parse(item.text).ok
C6_FallbackToDefaults ==
    [][lastOp'.op = "mount" =>
          /\ Unusable(lastOp'.result.settings) =>
                 phase' = "running" /\ settings' = DefaultSettings
          /\ Unusable(lastOp'.result.data) =>
                 phase' = "running" /\ data' = DefaultData(now)]_vars

\* C7: a page load that finds nothing under assembly_settings_v2 gets
\* {difficulty: Middle, language: English, themeColor: #6366f1, isDarkMode: true}
\* from the settings initializer, and holds it once mounted.
C7_Defaults ==
    <<[k |-> "difficulty", v |-> JStr("Middle")],
      [k |-> "language", v |-> JStr("English")],
      [k |-> "themeColor", v |-> JStr("#6366f1")],
      [k |-> "isDarkMode", v |-> JBool(TRUE)]>>
C7_DefaultSettings ==
    [][(lastOp'.op = "mount" /\ ~lastOp'.result.settings.present) =>
          /\ settingsInitializer.ok
          /\ settingsInitializer.val = C7_Defaults
          /\ phase' = "running" => settings' = C7_Defaults]_vars
\* a page mounted from a storage without settings
C7_Witness ==
    /\ lastOp.op = "mount"
    /\ ~lastOp.result.settings.present
    /\ phase = "running"
    /\ settings = C7_Defaults

\* C8: while the page runs, the item under assembly_data_v2 is the JSON text of
\* data and the item under assembly_settings_v2 is the JSON text of settings.
C8_WriteThrough ==
    phase = "running" =>
        /\ storage["assembly_data_v2"] = Item(JSON_stringify(data))
        /\ storage["assembly_settings_v2"] = Item(JSON_stringify(settings))
\* after a change of settings, a successful generation and a failed one
C8_Witness ==
    /\ phase = "running"
    /\ edits > 0
    /\ settings \notin {DefaultSettings, SavedSettings}
    /\ \E x \in Sections : Get(data, x) = JDoc("A")
    /\ Failed
    /\ C8_WriteThrough

\* C9: a request whose method is not POST is answered 405 {error: "Method not
\* allowed"}, a POST with a body whose type is neither suggestTopics nor
\* generateSection is answered 400 {error: "Invalid request type"}, and neither
\* calls the provider.
ErrorResponse(code, msg) ==
    /\ res.kind = "response"
    /\ res.status = code
    /\ JSON_parse(res.body) =
           [ok |-> TRUE, isObject |-> TRUE, val |-> <<[k |-> "error", v |-> JStr(msg)]>>]
C9_RequestGate ==
    handled > 0 =>
        /\ req.method # "POST" =>
               ErrorResponse(405, "Method not allowed") /\ providerCalls = 0
        /\ (/\ req.method = "POST"
            /\ req.body # NoBody
            /\ req.body.type \notin {JStr("suggestTopics"), JStr("generateSection")}) =>
               ErrorResponse(400, "Invalid request type") /\ providerCalls = 0
\* a GET answered, then a POST of type "unknown" answered 400
C9_Witness ==
    /\ handled = 2
    /\ req.method = "POST"
    /\ req.body # NoBody
    /\ req.body.type = JStr("unknown")
    /\ res.status = 400

\* C10: every POST gets a response; when the provider call fails, the model's
\* text does not parse or the request has no body, the response is 500 with
\* {error: the failure's message, or "Internal Server Error"}.
\* the provider call throws, or returns a text that JSON.parse rejects (an empty
\* text is replaced by "{}" or "[]" before it is parsed)
ProviderFails ==
    \/ provider.kind = "throws"
    \/ provider.kind = "text" /\ provider.text # "" /\ ~ParseModelText(provider.text).ok
C10_EveryFailureAnswered ==
    (handled > 0 /\ req.method = "POST") =>
        /\ res.kind = "response"
        /\ res.status \in {200, 400, 500}
        /\ req.body = NoBody => res.status = 500
        /\ (/\ req.body # NoBody
            /\ req.body.type \in {JStr("suggestTopics"), JStr("generateSection")}
            /\ ProviderFails) =>
               \E msg \in {"quota exceeded", "Unexpected token in JSON", "Internal Server Error"} :
                   ErrorResponse(500, msg)

\* the pieces of the repetition guard occur in prompt p, with v serialized
HasGuardFor(p, v) ==
    \E i \in 1..(Len(p) - 2) :
        /\ p[i] = RepetitionGuardHead
        /\ p[i + 1] = StringifyValue(v)
        /\ p[i + 2] = RepetitionGuardTail
HasGuard(p) == \E i \in 1..Len(p) : p[i] = RepetitionGuardHead
\* a generateSection request was handled and reached the provider call
Prompted ==
    /\ handled > 0
    /\ req.method = "POST"
    /\ req.body # NoBody
    /\ req.body.type = JStr("generateSection")
Supplied(options) == options # Undefined /\ options.previousContent \notin {Undefined, JNull}

\* C12 (as stated): the prompt of a generateSection request has the repetition
\* guard with the serialized previous content whenever options.previousContent
\* is supplied, and has no guard when it is absent.
C12_GuardWheneverSupplied ==
    Prompted =>
        /\ Supplied(req.body.options) => HasGuardFor(prompt, req.body.options.previousContent)
        /\ ~Supplied(req.body.options) => ~HasGuard(prompt)
\* C12 (amended): the prompt has the repetition guard, with the exact JSON text
\* of the previous content, when options.previousContent is truthy (any object
\* or array, empty ones too); it has no guard when previousContent is absent
\* or falsy (null, the empty string).
C12_RepetitionGuard ==
    Prompted =>
        LET prev == Opt(req.body.options, "previousContent")
        IN  /\ IsTruthy(prev) => HasGuardFor(prompt, prev)
            /\ ~IsTruthy(prev) => ~HasGuard(prompt)
\* a request whose previous content is the empty object, guarded with "{}"
C12_Witness ==
    /\ Prompted
    /\ req.body.options # Undefined
    /\ req.body.options.previousContent = JDoc("{}")
    /\ HasGuardFor(prompt, JDoc("{}"))
    /\ \E i \in 1..Len(prompt) : prompt[i] = "{}"

\* C13 (as stated): the prompt of a generateSection request has the Devanagari
\* instruction when language is Hindi and does not have it when language is
\* English.
HasLanguageRule(p) == \E i \in 1..Len(p) : p[i] = LanguageRule
C13_RuleOnlyForHindi ==
    Prompted =>
        /\ req.body.language = JStr("Hindi") => HasLanguageRule(prompt)
        /\ req.body.language = JStr("English") => ~HasLanguageRule(prompt)
\* C13 (amended): for every section and either language the prompt names the
\* language as "Primary Language: {language}." and carries the language rule,
\* whose text makes Devanagari output (and a Hindi word of the day) a duty if
\* the primary language is Hindi; the rule's text is there for English too.
C13_LanguageRule ==
    Prompted =>
        /\ HasLanguageRule(prompt)
        /\ \E i \in 1..(Len(prompt) - 2) :
               /\ prompt[i] = "Primary Language: "
               /\ prompt[i + 1] = Str(req.body.language)
               /\ prompt[i + 2] = "."
               /\ \E j \in (i + 3)..Len(prompt) : prompt[j] = LanguageRule
\* the word section asked for in Hindi: the rule stands beside the word task
C13_Witness ==
    /\ Prompted
    /\ req.body.section = JStr("word")
    /\ req.body.language = JStr("Hindi")
    /\ HasLanguageRule(prompt)
    /\ \E i \in 1..Len(prompt) : prompt[i] = WordTask

\* C11: whenever the HTTP call of generateSection (suggestTopics) does not
\* succeed, the function throws an error whose message is the error string of
\* the Proxy's body, or "Failed to generate content" ("Failed to suggest
\* topics") when that body is not parseable or has no error string.
GenericMessage(fn) == IF fn = "generateSection" THEN "Failed to generate content"
                      ELSE "Failed to suggest topics"
ReportedError(body) ==
    LET parsed == JSON_parse(body)
        e == IF parsed.ok /\ parsed.isObject THEN Get(parsed.val, "error") ELSE Undefined
    IN  IF "s" \in DOMAIN e /\ e.s # "" THEN e.s ELSE ""
C11_ClientErrorMessage ==
    (lastOp.op \in {"generateSection", "suggestTopics"} /\ res.kind = "response"
         /\ ~ResponseOk(res)) =>
        /\ lastOp.result.threw
        /\ lastOp.result.message =
               IF ReportedError(res.body) # "" THEN ReportedError(res.body)
               ELSE GenericMessage(lastOp.op)

\* C14: handleSpeak called while isSpeaking is set empties the synthesis queue
\* and clears the flag, starting nothing, whatever its text; called while the
\* flag is clear it hands exactly one utterance, of its text, to the synthesis
\* and sets the flag; the 'end' of an utterance clears the flag; and the
\* synthesis never holds a second utterance behind an active one.
C14_SpeakToggle ==
    /\ [](Len(synth) <= 1 /\ (synth # <<>> => isSpeaking))
    /\ [][/\ lastOp'.op = "handleSpeak" =>
                IF isSpeaking
                THEN synth' = <<>> /\ ~isSpeaking'
                ELSE /\ isSpeaking'
                     /\ Len(synth') = Len(synth) + 1
                     /\ synth'[Len(synth')].text = lastOp'.result.s
           /\ lastOp'.op = "utteranceEnd" => ~isSpeaking']_vars
\* a call that cancelled: the flag is clear again and nothing is spoken
C14_Witness ==
    /\ lastOp.op = "handleSpeak"
    /\ lastOp.result = JStr("Namaste")
    /\ ~isSpeaking
    /\ synth = <<>>

\* C15: downloadAsText saves nothing when data has no special_item; otherwise
\* it saves exactly one file, named Special_Segment_{selectedDate}.txt, whose
\* text is the content of the special_item (the text "undefined" for a segment
\* that has no content); it changes no state of App.
C15_Download ==
    [][lastOp'.op = "downloadAsText" =>
          /\ appCells' = appCells
          /\ UNCHANGED <<isSpeaking, synth, isSuggesting, suggestedTopicsList, greeting>>
          /\ Get(data, "special_item") \in {Undefined, JNull} => downloads' = downloads
          /\ Get(data, "special_item") \notin {Undefined, JNull} =>
                 /\ Len(downloads') = Len(downloads) + 1
                 /\ SubSeq(downloads', 1, Len(downloads)) = downloads
                 /\ downloads'[Len(downloads')].name =
                        "Special_Segment_" \o selectedDate \o ".txt"
                 /\ downloads'[Len(downloads')].text =
                        IF Get(data, "special_item") = JDoc("A") THEN "Hello World"
                        ELSE "undefined"]_vars
\* the segment saved after the date was changed
C15_Witness ==
    /\ lastOp.op = "downloadAsText"
    /\ Len(downloads) = 1
    /\ downloads[1] = [name |-> "Special_Segment_2024-08-15.txt", text |-> "Hello World"]

\* C16: the greeting set by updateGreeting at hour h is "Good Morning" for h in
\* 0..11, "Good Afternoon" for h in 12..16 and "Good Evening" for h in 17..23.
C16_Expected(h) == IF h \in 0..11 THEN "Good Morning"
                   ELSE IF h \in 12..16 THEN "Good Afternoon"
                   ELSE "Good Evening"
C16_GreetingBoundaries ==
    /\ hour \in 0..23
    /\ (lastOp.op = "updateGreeting" \/ (lastOp.op = "mount" /\ phase = "running")) =>
           greeting = C16_Expected(hour)
\* the interval fired in the hour of noon
C16_Witness ==
    /\ lastOp.op = "updateGreeting"
    /\ hour = 12
    /\ greeting = "Good Afternoon"

\* C17: a successful response to a request for s is applied whenever it
\* arrives: data[s] becomes its result also when a request for s issued later
\* is still in flight or was applied before; so once no request for s is in
\* flight, data[s] is the result of the response that resolved last.
C17_LastResolvedWins ==
    /\ [][\A r \in requests :
              (requests' = requests \ {r} /\ Succeeded') =>
                  /\ lastOp'.section = r.section
                  /\ Get(data', r.section) = lastOp'.result]_vars
    /\ []((Succeeded /\ ~InFlight(lastOp.section)) =>
              Get(data, lastOp.section) = lastOp.result)
\* the request issued second was applied while the first one, for the same
\* section, is still in flight
C17_Witness ==
    /\ Succeeded
    /\ netCalls = 2
    /\ Get(data, lastOp.section) = lastOp.result
    /\ \E r \in requests : r.id = 1 /\ r.section = lastOp.section

\* C18: a suggestion request that fails leaves suggestedTopicsList, error and
\* data as they were and clears isSuggesting; and no step that ends with
\* isOnline false issues a suggestion request.
C18_SuggestionFailureSilent ==
    [][/\ (lastOp'.op = "suggestCompleted" /\ lastOp'.result = Undefined) =>
              /\ suggestedTopicsList' = suggestedTopicsList
              /\ error' = error
              /\ data' = data
              /\ storage' = storage
              /\ ~isSuggesting'
       /\ ~isOnline' =>
              /\ suggestCalls' = suggestCalls
              /\ suggestRequests' \subseteq suggestRequests]_vars
\* a failed suggestion request of a page that shows an error and a list
C18_Witness ==
    /\ lastOp.op = "suggestCompleted"
    /\ lastOp.result = Undefined
    /\ suggestedTopicsList = JDoc("A")
    /\ error # NoError
    /\ ~isSuggesting

\* C19: the request that handleGenerateSection(s) issues carries the value
\* data holds for s at that moment as previousContent (none when s has no
\* value) and the selectedDate, difficulty, language, specialType, customTopic
\* and contentLength of that moment; a request in flight never changes.
C19_CapturedAtIssue ==
    [][/\ lastOp'.op = "generateStart" =>
              \E r \in requests' \ requests :
                  /\ requests' = requests \cup {r}
                  /\ r.section = lastOp'.section
                  /\ r.date = selectedDate
                  /\ r.difficulty = Get(settings, "difficulty")
                  /\ r.language = Get(settings, "language")
                  /\ r.options.specialType = specialType
                  /\ r.options.customTopic = customTopic
                  /\ r.options.contentLength = contentLength
                  /\ r.options.previousContent = Get(data, r.section)
       /\ lastOp'.op \notin {"generateStart", "mount", "reload"} =>
              requests' \subseteq requests]_vars
\* a request for a section that had a value, in flight with the date it was
\* issued under after the date was changed
C19_Witness ==
    \E r \in requests :
        /\ r.options.previousContent = JDoc("B")
        /\ r.date # selectedDate
        /\ lastOp.op = "setSelectedDate"

\* C20: a change of the selected date leaves data (every section and the
\* timestamp), every loading flag, the error and what is stored as they were.
C20_DateChangeFrame ==
    [][lastOp'.op = "setSelectedDate" =>
          /\ selectedDate' # selectedDate
          /\ data' = data
          /\ loadingSections' = loadingSections
          /\ error' = error
          /\ storage' = storage]_vars
\* the date changed while a section is loading, another holds a value
C20_Witness ==
    /\ lastOp.op = "setSelectedDate"
    /\ selectedDate = "2024-08-15"
    /\ Has(data, "word")
    /\ \E x \in Sections : loadingSections[x] = "true"
    /\ \E q \in suggestRequests : q.date = "2024-08-15"

SuggestSucceeded == lastOp.op = "suggestCompleted" /\ lastOp.result # Undefined
C22_SuggestionsAreCurrent ==
    [][/\ \A q \in suggestRequests :
              (suggestRequests' = {} /\ suggestRequests = {q} /\ SuggestSucceeded') =>
                  /\ suggestedTopicsList' = lastOp'.result
                  /\ q.date = selectedDate'
                  /\ q.language = Get(settings', "language")
       /\ suggestRequests' # {} => isSuggesting']_vars

\* C23: in every reachable state isSpeaking is true if and only if an utterance
\* started by handleSpeak is playing or queued: the flag is not cleared while an
\* utterance plays and does not stay set once playback has stopped, whatever
\* stopped it.
C23_SpeakingIffPlaying == isSpeaking <=> synth # <<>>

====
